---- MODULE Spec2Model ----
(***************************************************************************)
(* Model of the Dashboard component of jpm-dashboard/src/App.jsx: the      *)
(* synthetic portfolio generator, the aggregation pipeline (filter,        *)
(* metrics, segment and region summaries), the refresh timer and the LLM   *)
(* summarization request.                                                  *)
(*                                                                         *)
(* Numbers.  Math.random() returns a value u/1000 with u in 0..999 (the    *)
(* draw, in thousandths).  Currency amounts are integers.  riskScore is    *)
(* kept in thousandths, utilization in hundredths (the precision that      *)
(* toFixed(3) and toFixed(2) leave).  A JavaScript quotient is a record    *)
(* [kind, num, den] so that 0/0 = NaN is a value of its own.               *)
(***************************************************************************)
EXTENDS Integers, Sequences, FiniteSets, TLC

\* Number of records generatePortfolioData builds (the loop bound of line 41,
\* which is 200 in the source; the model generates RecordCount of them).
RecordCount == 3

\* Number of states of the hidden Math.random generator.
RandMod == 32

\* Caps on the pending refresh timers and on the requests in flight.
MaxTimers == 2
MaxInFlight == 2

VARIABLES
    portfolioData,    \* useState(generatePortfolioData()), line 130
    aiAnalysis,       \* useState(null), line 131
    isGenerating,     \* useState(false), line 132
    selectedSegment,  \* useState("all"), line 133
    selectedRegion,   \* useState("all"), line 134
    chartType,        \* useState("bar"), line 135
    isRefreshing,     \* useState(false), line 136
    apiKey,           \* import.meta.env?.VITE_GROQ_API_KEY || "", line 138
    rng,              \* hidden state of Math.random
    timers,           \* pending setTimeout callbacks of handleRefresh
    requests,         \* generateAIInsights calls suspended at await fetch
    rendered,         \* the committed render: what the handlers' closures see
    mounted,          \* FALSE once a render has thrown (React unmounts the tree)
    alerted           \* alert() of line 243 has been shown

vars == <<portfolioData, aiAnalysis, isGenerating, selectedSegment,
          selectedRegion, chartType, isRefreshing, apiKey, rng, timers,
          requests, rendered, mounted, alerted>>

(***************************************************************************)
(* Arithmetic helpers                                                      *)
(***************************************************************************)
Min(a, b) == IF a < b THEN a ELSE b
Max(a, b) == IF a > b THEN a ELSE b

\* Math.round(n / d) for n >= 0, d > 0: floor(n/d + 1/2).
MathRound(n, d) == (2 * n + d) \div (2 * d)

RECURSIVE GCD(_, _)
GCD(a, b) == IF b = 0 THEN a ELSE GCD(b, a % b)

\* The JavaScript quotient n / d of two non-negative numbers.
NaN == [kind |-> "NaN", num |-> 0, den |-> 0]
Infinity == [kind |-> "Infinity", num |-> 0, den |-> 0]
JsDiv(n, d) ==
    IF d = 0
    THEN IF n = 0 THEN NaN ELSE Infinity
    ELSE [kind |-> "number", num |-> n \div GCD(n, d), den |-> d \div GCD(n, d)]

(***************************************************************************)
(* 1. Mock data generation                                                 *)
(***************************************************************************)
segments == <<"Mass Market", "Affluent", "High Net Worth">>
regions == <<"North America", "EMEA", "APAC", "LatAm">>

\* Math.random(): the generator steps its hidden state and returns a draw.
NextRng(s) == (5 * s + 3) % RandMod
Draw(s) == (s * 1000) \div RandMod

\* Per-segment table of lines 47-59: baseBalance from draw u, baseLimit.
BaseBalance(segment, u) ==
    IF segment = "High Net Worth" THEN 50000 + 150 * u
    ELSE IF segment = "Affluent" THEN 15000 + 50 * u
    ELSE 1000 + 10 * u

BaseLimit(segment) ==
    IF segment = "High Net Worth" THEN 100000
    ELSE IF segment = "Affluent" THEN 40000
    ELSE 15000

\* Math.min(baseBalance / baseLimit, 1.2), as a numerator over 10*baseLimit.
UtilizationNum(baseBalance, baseLimit) == Min(10 * baseBalance, 12 * baseLimit)

\* A riskScore without the clamp of line 64.
RiskNumUnclamped(segment, baseBalance, baseLimit, u) ==
    4 * u * baseLimit
    + 500 * UtilizationNum(baseBalance, baseLimit)
    + (IF segment = "Mass Market" THEN 1000 * baseLimit ELSE 0)

\* riskScore of lines 62-64, as a numerator over 10000*baseLimit.
RiskNum(segment, baseBalance, baseLimit, u) ==
    LET raw == 4 * u * baseLimit
               + 500 * UtilizationNum(baseBalance, baseLimit)
               + (IF segment = "Mass Market" THEN 1000 * baseLimit ELSE 0)
    IN  Min(Max(raw, 100 * baseLimit), 9900 * baseLimit)

\* One iteration of the loop of lines 41-80, from its six draws.
MakeRecord(i, uSeg, uReg, uBal, uRisk, uDef, uRev) ==
    LET segment == segments[((uSeg * Len(segments)) \div 1000) + 1]
        region == regions[((uReg * Len(regions)) \div 1000) + 1]
        baseBalance == BaseBalance(segment, uBal)
        baseLimit == BaseLimit(segment)
        riskNum == RiskNum(segment, baseBalance, baseLimit, uRisk)
        threshold == IF riskNum > 7500 * baseLimit THEN 400 ELSE 20
    IN  [customerId |-> <<"CUST-", 1000 + i>>,
         segment |-> segment,
         region |-> region,
         accountBalance |-> MathRound(baseBalance, 1),
         creditLimit |-> baseLimit,
         utilization |-> MathRound(10 * UtilizationNum(baseBalance, baseLimit),
                                   baseLimit),
         riskScore |-> MathRound(riskNum, 10 * baseLimit),
         annualRevenue |-> MathRound(2 * baseBalance + 25 * uRev, 50),
         defaultFlag |-> uDef < threshold]

RECURSIVE GenLoop(_, _, _)
GenLoop(i, s, data) ==
    IF i >= RecordCount
    THEN [data |-> data, rng |-> s]
    ELSE LET s1 == NextRng(s)
             s2 == NextRng(s1)
             s3 == NextRng(s2)
             s4 == NextRng(s3)
             s5 == NextRng(s4)
             s6 == NextRng(s5)
         IN  GenLoop(i + 1, s6,
                     Append(data, MakeRecord(i, Draw(s1), Draw(s2), Draw(s3),
                                             Draw(s4), Draw(s5), Draw(s6))))

\* A loop that starts at i = 1.
generatePortfolioDataFromOne(s) == GenLoop(1, s, <<>>)

\* generatePortfolioData(), run from generator state s.
generatePortfolioData(s) == GenLoop(0, s, <<>>)

\* generatePortfolioData declares no parameter (line 36): a call with a count
\* ignores the argument.
generate(count, s) == generatePortfolioData(s)

(***************************************************************************)
(* 2. Aggregation: the useMemo values of the component                     *)
(***************************************************************************)
\* A callback that keeps a record matching either filter.
FilterMatchEither(d, segment, region) ==
    \/ segment = "all" \/ d.segment = segment
    \/ region = "all" \/ d.region = region

\* The callback of portfolioData.filter, lines 152-158.
FilterMatch(d, segment, region) ==
    LET segmentMatch == segment = "all" \/ d.segment = segment
        regionMatch == region = "all" \/ d.region = region
    IN  segmentMatch /\ regionMatch

\* Array.prototype.filter with that callback: left to right, order kept.
RECURSIVE ArrayFilter(_, _, _)
ArrayFilter(data, segment, region) ==
    IF data = <<>>
    THEN <<>>
    ELSE IF FilterMatch(Head(data), segment, region)
         THEN <<Head(data)>> \o ArrayFilter(Tail(data), segment, region)
         ELSE ArrayFilter(Tail(data), segment, region)

\* A filter whose scan starts at the second record.
filteredDataSkipFirst(data, segment, region) ==
    IF data = <<>> THEN <<>> ELSE ArrayFilter(Tail(data), segment, region)

\* filteredData, lines 151-159.
filteredData(data, segment, region) == ArrayFilter(data, segment, region)

\* Array.prototype.reduce((acc, curr) => acc + curr, 0) over the numbers of
\* values, left to right.
RECURSIVE ReduceSum(_, _)
ReduceSum(acc, values) ==
    IF Len(values) = 0
    THEN acc
    ELSE ReduceSum(acc + Head(values), Tail(values))

\* Metrics whose defaultRate is the fraction, not multiplied by 100.
metricsRateAsFraction(filtered) ==
    LET n == Len(filtered)
        defaults == Len(SelectSeq(filtered, LAMBDA d : d.defaultFlag))
    IN  [totalBalance |-> ReduceSum(0, [k \in 1..n |-> filtered[k].accountBalance]),
         totalRevenue |-> ReduceSum(0, [k \in 1..n |-> filtered[k].annualRevenue]),
         avgRisk |-> JsDiv(ReduceSum(0, [k \in 1..n |-> filtered[k].riskScore]), n),
         defaultRate |-> JsDiv(defaults, n)]

\* metrics, lines 162-183.  avgRisk is in thousandths, defaultRate in percent.
metrics(filtered) ==
    LET n == Len(filtered)
        totalBalance == ReduceSum(0, [k \in 1..n |-> filtered[k].accountBalance])
        totalRevenue == ReduceSum(0, [k \in 1..n |-> filtered[k].annualRevenue])
        riskSum == ReduceSum(0, [k \in 1..n |-> filtered[k].riskScore])
        defaults == Len(SelectSeq(filtered, LAMBDA d : d.defaultFlag))
    IN  [totalBalance |-> totalBalance,
         totalRevenue |-> totalRevenue,
         avgRisk |-> JsDiv(riskSum, n),
         defaultRate |-> JsDiv(defaults * 100, n)]

\* Index of the summary named name in agg, 0 when agg has no such key.
KeyIndex(agg, name) ==
    IF \E k \in 1..Len(agg) : agg[k].name = name
    THEN CHOOSE k \in 1..Len(agg) : agg[k].name = name
    ELSE 0

\* segmentData, lines 185-202: agg keeps its keys in insertion order, which
\* is the order Object.values returns.
RECURSIVE SegmentAgg(_, _)
SegmentAgg(filtered, agg) ==
    IF filtered = <<>>
    THEN agg
    ELSE LET d == Head(filtered)
             k == KeyIndex(agg, d.segment)
             agg1 == IF k = 0
                     THEN Append(agg, [name |-> d.segment, value |-> 0,
                                       balance |-> 0, count |-> 0, revenue |-> 0])
                     ELSE agg
             j == KeyIndex(agg1, d.segment)
             agg2 == [agg1 EXCEPT ![j].value = @ + d.annualRevenue,
                                  ![j].balance = @ + d.accountBalance,
                                  ![j].revenue = @ + d.annualRevenue,
                                  ![j].count = @ + 1]
         IN  SegmentAgg(Tail(filtered), agg2)

\* Summaries whose balance accumulates annualRevenue instead of accountBalance.
segmentDataBalanceFromRevenue(filtered) ==
    [k \in 1..Len(SegmentAgg(filtered, <<>>)) |->
        [SegmentAgg(filtered, <<>>)[k] EXCEPT
            !.balance = SegmentAgg(filtered, <<>>)[k].revenue]]

\* segmentData, lines 185-202.
segmentData(filtered) == SegmentAgg(filtered, <<>>)

RECURSIVE RegionAgg(_, _)
RegionAgg(filtered, agg) ==
    IF filtered = <<>>
    THEN agg
    ELSE LET d == Head(filtered)
             k == KeyIndex(agg, d.region)
             agg1 == IF k = 0
                     THEN Append(agg, [name |-> d.region, revenue |-> 0])
                     ELSE agg
             j == KeyIndex(agg1, d.region)
         IN  RegionAgg(Tail(filtered),
                       [agg1 EXCEPT ![j].revenue = @ + d.annualRevenue])

\* Array.prototype.sort((a, b) => b.revenue - a.revenue): stable, descending.
RECURSIVE SortInsert(_, _)
SortInsert(sorted, x) ==
    IF sorted = <<>>
    THEN <<x>>
    ELSE IF Head(sorted).revenue >= x.revenue
         THEN <<Head(sorted)>> \o SortInsert(Tail(sorted), x)
         ELSE <<x>> \o sorted

RECURSIVE SortByRevenue(_)
SortByRevenue(s) ==
    IF s = <<>>
    THEN <<>>
    ELSE SortInsert(SortByRevenue(SubSeq(s, 1, Len(s) - 1)), s[Len(s)])

\* Region summaries returned without the sort.
regionDataUnsorted(filtered) == RegionAgg(filtered, <<>>)

\* regionData, lines 204-211.
regionData(filtered) == SortByRevenue(RegionAgg(filtered, <<>>))

(***************************************************************************)
(* 3. The summarization response                                           *)
(***************************************************************************)
\* A JavaScript value that setAiAnalysis can receive: null, or an object
\* whose fields insights and recommendation may be missing.
Null ==
    [type |-> "null", hasInsights |-> FALSE, insights |-> <<>>,
     hasRecommendation |-> FALSE, recommendation |-> ""]

JsObject(hasInsights, insights, hasRecommendation, recommendation) ==
    [type |-> "object", hasInsights |-> hasInsights, insights |-> insights,
     hasRecommendation |-> hasRecommendation, recommendation |-> recommendation]

\* The literal of the catch block, lines 312-320.
FallbackAnalysis ==
    JsObject(TRUE,
             <<"Service Unavailable. Please check your API key in the .env file.",
               "Ensure VITE_GROQ_API_KEY is set correctly.",
               "Check browser console for detailed error information.">>,
             TRUE, "Proceed with manual analysis or verify API credentials.")

\* Truthiness of a value, as tested by "aiAnalysis ?" and "!aiAnalysis".
Truthy(v) == v.type # "null"

\* Message contents the endpoint may return.
ContentTexts ==
    {"{\"insights\":[\"i1\",\"i2\",\"i3\"],\"recommendation\":\"r\"}",
     "{\"insights\":[\"i1\",\"i2\"],\"recommendation\":\"r\"}",
     "{\"summary\":\"s\"}",
     "Here is the analysis: {"}

\* JSON.parse(content), line 308: the value, or a SyntaxError.
JSONParse(text) ==
    CASE text = "{\"insights\":[\"i1\",\"i2\",\"i3\"],\"recommendation\":\"r\"}" ->
            [ok |-> TRUE, value |-> JsObject(TRUE, <<"i1", "i2", "i3">>, TRUE, "r")]
      [] text = "{\"insights\":[\"i1\",\"i2\"],\"recommendation\":\"r\"}" ->
            [ok |-> TRUE, value |-> JsObject(TRUE, <<"i1", "i2">>, TRUE, "r")]
      [] text = "{\"summary\":\"s\"}" ->
            [ok |-> TRUE, value |-> JsObject(FALSE, <<>>, FALSE, "")]
      [] OTHER ->
            [ok |-> FALSE, value |-> Null]

\* What fetch can come back with: a rejected promise (network "fail"), or a
\* response with a status (ok or not), a body that response.json() can read
\* or not, with or without choices[0].message.content.
Responses ==
    [network : {"fail"}, ok : {FALSE}, json : {FALSE}, hasContent : {FALSE},
     content : {""}]
    \cup [network : {"ok"}, ok : {FALSE}, json : BOOLEAN, hasContent : {FALSE},
          content : {""}]
    \cup [network : {"ok"}, ok : {TRUE}, json : {FALSE}, hasContent : {FALSE},
          content : {""}]
    \cup [network : {"ok"}, ok : {TRUE}, json : {TRUE}, hasContent : {FALSE},
          content : {""}]
    \cup [network : {"ok"}, ok : {TRUE}, json : {TRUE}, hasContent : {TRUE},
          content : ContentTexts]

\* The try block after the fetch, lines 273-309: TRUE when it throws.
TryThrows(resp) ==
    \/ resp.network = "fail"
    \/ ~resp.ok
    \/ ~resp.json
    \/ ~resp.hasContent
    \/ ~JSONParse(resp.content).ok

\* A catch block that clears the analysis instead of storing the fallback.
AnalysisOfNoFallback(resp) ==
    IF TryThrows(resp) THEN Null ELSE JSONParse(resp.content).value

\* The value handed to setAiAnalysis by lines 309 or 312.
AnalysisOf(resp) ==
    IF TryThrows(resp) THEN FallbackAnalysis ELSE JSONParse(resp.content).value

(***************************************************************************)
(* 4. Rendering                                                            *)
(***************************************************************************)
\* The AI Insights panel, lines 1000-1090: TRUE when rendering it throws a
\* TypeError (aiAnalysis.insights.map, line 1006; regionData[0].name, 1084).
RenderThrows(data, segment, region, analysis, generating) ==
    IF generating
    THEN FALSE
    ELSE IF Truthy(analysis)
         THEN ~analysis.hasInsights
         ELSE regionData(filteredData(data, segment, region)) = <<>>

\* What a committed render shows and closes over.
Snapshot(analysis, generating, refreshing) ==
    [aiAnalysis |-> analysis, isGenerating |-> generating,
     isRefreshing |-> refreshing]

\* React renders the state given; a render that throws unmounts the tree.
Commit(data, segment, region, analysis, generating, refreshing) ==
    IF RenderThrows(data, segment, region, analysis, generating)
    THEN /\ mounted' = FALSE
         /\ rendered' = rendered
    ELSE /\ mounted' = TRUE
         /\ rendered' = Snapshot(analysis, generating, refreshing)

\* The Generate AI button is in the page, line 989.
GenerateButtonShown == ~Truthy(rendered.aiAnalysis) /\ ~rendered.isGenerating

\* The Refresh Data button is enabled, line 612.
RefreshButtonEnabled == ~rendered.isRefreshing

(***************************************************************************)
(* 5. The component: initial state and handlers                            *)
(***************************************************************************)
\* The options of the two selects, lines 641-644 and 652-656.
SegmentOptions == {"all", "Mass Market", "Affluent", "High Net Worth"}
RegionOptions == {"all", "North America", "EMEA", "APAC", "LatAm"}
ChartTypes == {"bar", "line"}

\* The credential of the build: absent, or some key.
ApiKeys == {"", "gsk_live"}

\* A request suspended at await fetch.  superseded records that a refresh
\* has replaced the collection since the request was issued.
NewRequest == [superseded |-> FALSE]

Supersede(reqs) == [k \in 1..Len(reqs) |-> [reqs[k] EXCEPT !.superseded = TRUE]]

RemoveAt(s, i) == SubSeq(s, 1, i - 1) \o SubSeq(s, i + 1, Len(s))

\* First mount, lines 130-138, and the first render.
Init ==
    \E seed \in 0..(RandMod - 1), key \in ApiKeys :
        /\ portfolioData = generatePortfolioData(seed).data
        /\ rng = generatePortfolioData(seed).rng
        /\ aiAnalysis = Null
        /\ isGenerating = FALSE
        /\ selectedSegment = "all"
        /\ selectedRegion = "all"
        /\ chartType = "bar"
        /\ isRefreshing = FALSE
        /\ apiKey = key
        /\ timers = 0
        /\ requests = <<>>
        /\ rendered = Snapshot(Null, FALSE, FALSE)
        /\ mounted = ~RenderThrows(generatePortfolioData(seed).data, "all", "all",
                                   Null, FALSE)
        /\ alerted = FALSE

\* Click on Refresh Data: handleRefresh, lines 141-148, up to setTimeout.
\* The update of a click handler is rendered before the next event.
HandleRefresh ==
    /\ mounted
    /\ RefreshButtonEnabled
    /\ timers < MaxTimers
    /\ isRefreshing' = TRUE
    /\ timers' = timers + 1
    /\ Commit(portfolioData, selectedSegment, selectedRegion, aiAnalysis,
              isGenerating, TRUE)
    /\ UNCHANGED <<portfolioData, aiAnalysis, isGenerating, selectedSegment,
                   selectedRegion, chartType, apiKey, rng, requests, alerted>>

\* A timer callback that also resets the pending flag.
RefreshTimeoutResetsGenerating ==
    /\ timers > 0
    /\ timers' = timers - 1
    /\ rng' = generatePortfolioData(rng).rng
    /\ IF mounted
       THEN /\ portfolioData' = generatePortfolioData(rng).data
            /\ aiAnalysis' = Null
            /\ isRefreshing' = FALSE
            /\ isGenerating' = FALSE
            /\ requests' = Supersede(requests)
       ELSE UNCHANGED <<portfolioData, aiAnalysis, isRefreshing, isGenerating,
                        requests>>
    /\ UNCHANGED <<selectedSegment, selectedRegion, chartType, apiKey, rendered,
                   mounted, alerted>>

\* The timer callback of handleRefresh, lines 144-146, 800 ms later.  The
\* state updates of an unmounted component are dropped.
RefreshTimeout ==
    /\ timers > 0
    /\ timers' = timers - 1
    /\ rng' = generatePortfolioData(rng).rng
    /\ IF mounted
       THEN /\ portfolioData' = generatePortfolioData(rng).data
            /\ aiAnalysis' = Null
            /\ isRefreshing' = FALSE
            /\ requests' = Supersede(requests)
       ELSE UNCHANGED <<portfolioData, aiAnalysis, isRefreshing, requests>>
    /\ UNCHANGED <<isGenerating, selectedSegment, selectedRegion, chartType,
                   apiKey, rendered, mounted, alerted>>

\* A segment select that stores the filtered records back into the
\* collection.
SetSelectedSegmentInPlace ==
    \E v \in SegmentOptions \ {selectedSegment} :
        /\ mounted
        /\ selectedSegment' = v
        /\ portfolioData' = filteredData(portfolioData, v, selectedRegion)
        /\ Commit(filteredData(portfolioData, v, selectedRegion), v,
                  selectedRegion, aiAnalysis, isGenerating, isRefreshing)
        /\ UNCHANGED <<aiAnalysis, isGenerating, selectedRegion, chartType,
                       isRefreshing, apiKey, rng, timers, requests, alerted>>

\* onChange of the segment select, line 638.
SetSelectedSegment ==
    \E v \in SegmentOptions \ {selectedSegment} :
        /\ mounted
        /\ selectedSegment' = v
        /\ Commit(portfolioData, v, selectedRegion, aiAnalysis, isGenerating,
                  isRefreshing)
        /\ UNCHANGED <<portfolioData, aiAnalysis, isGenerating, selectedRegion,
                       chartType, isRefreshing, apiKey, rng, timers, requests,
                       alerted>>

\* A region select that also discards the analysis made for the old region.
SetSelectedRegionClearsAnalysis ==
    \E v \in RegionOptions \ {selectedRegion} :
        /\ mounted
        /\ selectedRegion' = v
        /\ aiAnalysis' = Null
        /\ Commit(portfolioData, selectedSegment, v, Null, isGenerating,
                  isRefreshing)
        /\ UNCHANGED <<portfolioData, isGenerating, selectedSegment, chartType,
                       isRefreshing, apiKey, rng, timers, requests, alerted>>

\* onChange of the region select, line 649.
SetSelectedRegion ==
    \E v \in RegionOptions \ {selectedRegion} :
        /\ mounted
        /\ selectedRegion' = v
        /\ Commit(portfolioData, selectedSegment, v, aiAnalysis, isGenerating,
                  isRefreshing)
        /\ UNCHANGED <<portfolioData, aiAnalysis, isGenerating, selectedSegment,
                       chartType, isRefreshing, apiKey, rng, timers, requests,
                       alerted>>

\* onClick of the Bar and Line buttons, lines 716 and 726.
SetChartType ==
    \E v \in ChartTypes :
        /\ mounted
        /\ chartType' = v
        /\ Commit(portfolioData, selectedSegment, selectedRegion, aiAnalysis,
                  isGenerating, isRefreshing)
        /\ UNCHANGED <<portfolioData, aiAnalysis, isGenerating, selectedSegment,
                       selectedRegion, isRefreshing, apiKey, rng, timers,
                       requests, alerted>>

\* A handler without the credential guard of lines 242-247.
GenerateAIInsightsNoKeyCheck ==
    /\ mounted
    /\ GenerateButtonShown
    /\ Len(requests) < MaxInFlight
    /\ IF rendered.isGenerating
       THEN UNCHANGED <<isGenerating, requests, rendered, mounted>>
       ELSE /\ isGenerating' = TRUE
            /\ requests' = Append(requests, NewRequest)
            /\ Commit(portfolioData, selectedSegment, selectedRegion,
                      aiAnalysis, TRUE, isRefreshing)
    /\ UNCHANGED <<portfolioData, aiAnalysis, selectedSegment, selectedRegion,
                   chartType, isRefreshing, apiKey, rng, timers, alerted>>

\* A Generate AI button that is in the page whatever aiAnalysis holds.
GenerateAIInsightsAlwaysShown ==
    /\ mounted
    /\ Len(requests) < MaxInFlight
    /\ IF rendered.isGenerating
       THEN UNCHANGED <<isGenerating, requests, rendered, mounted, alerted>>
       ELSE IF apiKey = ""
            THEN /\ alerted' = TRUE
                 /\ UNCHANGED <<isGenerating, requests, rendered, mounted>>
            ELSE /\ isGenerating' = TRUE
                 /\ requests' = Append(requests, NewRequest)
                 /\ Commit(portfolioData, selectedSegment, selectedRegion,
                           aiAnalysis, TRUE, isRefreshing)
                 /\ UNCHANGED alerted
    /\ UNCHANGED <<portfolioData, aiAnalysis, selectedSegment, selectedRegion,
                   chartType, isRefreshing, apiKey, rng, timers>>

\* Click on Generate AI: generateAIInsights, lines 239-297, up to await fetch.
\* The handler reads isGenerating and apiKey of the render it was made in.
GenerateAIInsights ==
    /\ mounted
    /\ GenerateButtonShown
    /\ Len(requests) < MaxInFlight
    /\ IF rendered.isGenerating
       THEN UNCHANGED <<isGenerating, requests, rendered, mounted, alerted>>
       ELSE IF apiKey = ""
            THEN /\ alerted' = TRUE
                 /\ UNCHANGED <<isGenerating, requests, rendered, mounted>>
            ELSE /\ isGenerating' = TRUE
                 /\ requests' = Append(requests, NewRequest)
                 /\ Commit(portfolioData, selectedSegment, selectedRegion,
                           aiAnalysis, TRUE, isRefreshing)
                 /\ UNCHANGED alerted
    /\ UNCHANGED <<portfolioData, aiAnalysis, selectedSegment, selectedRegion,
                   chartType, isRefreshing, apiKey, rng, timers>>

\* A completion without the finally block: the flag is cleared on success only.
ResponseNoFinally(i, resp) ==
    /\ requests' = RemoveAt(requests, i)
    /\ IF mounted
       THEN /\ aiAnalysis' = AnalysisOf(resp)
            /\ isGenerating' = TryThrows(resp)
       ELSE UNCHANGED <<aiAnalysis, isGenerating>>
    /\ UNCHANGED <<portfolioData, selectedSegment, selectedRegion, chartType,
                   isRefreshing, apiKey, rng, timers, rendered, mounted, alerted>>

\* The fetch of request i settles with resp: the rest of generateAIInsights,
\* lines 299-323 (try, catch, finally).
Response(i, resp) ==
    /\ requests' = RemoveAt(requests, i)
    /\ IF mounted
       THEN /\ aiAnalysis' = AnalysisOf(resp)
            /\ isGenerating' = FALSE
       ELSE UNCHANGED <<aiAnalysis, isGenerating>>
    /\ UNCHANGED <<portfolioData, selectedSegment, selectedRegion, chartType,
                   isRefreshing, apiKey, rng, timers, rendered, mounted, alerted>>

FetchSettles == \E i \in 1..Len(requests), resp \in Responses : Response(i, resp)

\* React renders the updates made outside an event handler (timer callback,
\* promise continuation) in a task of its own.
Render ==
    /\ mounted
    /\ rendered # Snapshot(aiAnalysis, isGenerating, isRefreshing)
    /\ Commit(portfolioData, selectedSegment, selectedRegion, aiAnalysis,
              isGenerating, isRefreshing)
    /\ UNCHANGED <<portfolioData, aiAnalysis, isGenerating, selectedSegment,
                   selectedRegion, chartType, isRefreshing, apiKey, rng, timers,
                   requests, alerted>>

\* Click on Download Full Risk Report: generatePDF, lines 327-577, writes the
\* report into a new window and changes no state of the component.
GeneratePDF ==
    /\ mounted
    /\ UNCHANGED vars

Next ==
    \/ HandleRefresh
    \/ RefreshTimeout
    \/ SetSelectedSegment
    \/ SetSelectedRegion
    \/ SetChartType
    \/ GenerateAIInsights
    \/ FetchSettles
    \/ Render
    \/ GeneratePDF

Spec == Init /\ [][Next]_vars

\* The transport eventually answers or fails: the promise of every fetch
\* settles, and its continuation (lines 299-323) then runs.
FairSpec == Spec /\ WF_vars(FetchSettles)

(***************************************************************************)
(* One iteration of the generator's loop on its own, for every outcome of  *)
(* its six draws                                                           *)
(***************************************************************************)
\* Outcomes of Math.random(), in thousandths: both ends of [0, 1) and the
\* values next to the thresholds of lines 42, 43 and 66.
DrawValues == {0, 19, 20, 400, 500, 999}

\* const data = [], line 39; the component is as at its first mount.
GenInit ==
    /\ portfolioData = <<>>
    /\ rng = 0
    /\ aiAnalysis = Null
    /\ isGenerating = FALSE
    /\ selectedSegment = "all"
    /\ selectedRegion = "all"
    /\ chartType = "bar"
    /\ isRefreshing = FALSE
    /\ apiKey = ""
    /\ timers = 0
    /\ requests = <<>>
    /\ rendered = Snapshot(Null, FALSE, FALSE)
    /\ mounted = TRUE
    /\ alerted = FALSE

\* Iteration i of the loop, lines 41-80: portfolioData holds the record pushed.
GenerateRecord ==
    /\ portfolioData = <<>>
    /\ \E i \in 0..(RecordCount - 1) :
        \E uSeg \in DrawValues, uReg \in DrawValues, uBal \in DrawValues,
           uRisk \in DrawValues, uDef \in DrawValues, uRev \in DrawValues :
            portfolioData' = <<MakeRecord(i, uSeg, uReg, uBal, uRisk, uDef, uRev)>>
    /\ UNCHANGED <<aiAnalysis, isGenerating, selectedSegment, selectedRegion,
                   chartType, isRefreshing, apiKey, rng, timers, requests,
                   rendered, mounted, alerted>>

GenNext == GenerateRecord

SpecGen == GenInit /\ [][GenNext]_vars

(***************************************************************************)
(* The component started on the three-record scenario                      *)
(***************************************************************************)
\* Mass Market / North America, Affluent / EMEA, High Net Worth / EMEA, in
\* the shape of the records of lines 69-79.
ScenarioRecords ==
    <<[customerId |-> <<"CUST-", 1000>>, segment |-> "Mass Market",
       region |-> "North America", accountBalance |-> 5000,
       creditLimit |-> 15000, utilization |-> 33, riskScore |-> 300,
       annualRevenue |-> 700, defaultFlag |-> FALSE],
      [customerId |-> <<"CUST-", 1001>>, segment |-> "Affluent",
       region |-> "EMEA", accountBalance |-> 20000,
       creditLimit |-> 40000, utilization |-> 50, riskScore |-> 500,
       annualRevenue |-> 1300, defaultFlag |-> FALSE],
      [customerId |-> <<"CUST-", 1002>>, segment |-> "High Net Worth",
       region |-> "EMEA", accountBalance |-> 100000,
       creditLimit |-> 100000, utilization |-> 100, riskScore |-> 200,
       annualRevenue |-> 4500, defaultFlag |-> TRUE]>>

\* First mount, lines 130-138, with the scenario as the collection.
ScenarioInit ==
    \E seed \in 0..(RandMod - 1), key \in ApiKeys :
        /\ portfolioData = ScenarioRecords
        /\ rng = seed
        /\ aiAnalysis = Null
        /\ isGenerating = FALSE
        /\ selectedSegment = "all"
        /\ selectedRegion = "all"
        /\ chartType = "bar"
        /\ isRefreshing = FALSE
        /\ apiKey = key
        /\ timers = 0
        /\ requests = <<>>
        /\ rendered = Snapshot(Null, FALSE, FALSE)
        /\ mounted = ~RenderThrows(ScenarioRecords, "all", "all", Null, FALSE)
        /\ alerted = FALSE

SpecScenario == ScenarioInit /\ [][Next]_vars

(***************************************************************************)
(* 6. Properties                                                           *)
(***************************************************************************)
\* The filtered set, the metrics and the summaries of the current state.
CurrentFiltered == filteredData(portfolioData, selectedSegment, selectedRegion)
CurrentMetrics == metrics(CurrentFiltered)

\* The page shows the current state (no update is waiting for its render).
ViewCurrent == mounted /\ rendered = Snapshot(aiAnalysis, isGenerating, isRefreshing)

\* A step that issues a request, and a step in which a request completes.
RequestIssued == Len(requests') > Len(requests)
RequestCompleted == Len(requests') < Len(requests)

\* C1: at most one summarization request is in flight in every reachable
\* state: no request is issued while an earlier one is still pending.
C1_AtMostOneInFlight == Len(requests) <= 1

\* C1 witness: a request is pending, a refresh has replaced the collection
\* meanwhile and the page has been rendered again; the button stays hidden.
C1_Witness ==
    /\ Len(requests) = 1
    /\ requests[1].superseded
    /\ ViewCurrent
    /\ ~isRefreshing
    /\ ~GenerateButtonShown

\* C2: the response of a request superseded by a refresh is ignored: its
\* completion leaves aiAnalysis as it was (null for the new collection).
C2_SupersededIgnored ==
    [][\A i \in 1..Len(requests) :
          (requests[i].superseded /\ requests' = RemoveAt(requests, i))
              => aiAnalysis' = aiAnalysis]_vars

\* C3: a non-null aiAnalysis has exactly 3 insights and a recommendation
\* (any response of another shape was replaced by the fallback payload).
C3_AnalysisWellShaped ==
    Truthy(aiAnalysis) =>
        /\ aiAnalysis.hasInsights
        /\ Len(aiAnalysis.insights) = 3
        /\ aiAnalysis.hasRecommendation

\* C4: a request whose fetch fails in transport or returns a non-success
\* status ends with aiAnalysis the fallback payload and the pending flag
\* cleared, and the page stays mounted (nothing propagates).
C4_TransportFailureFallback ==
    [][\A i \in 1..Len(requests) : \A resp \in Responses :
          ((resp.network = "fail" \/ ~resp.ok) /\ Response(i, resp))
              => /\ aiAnalysis' = FallbackAnalysis
                 /\ Len(aiAnalysis'.insights) = 3
                 /\ isGenerating' = FALSE
                 /\ mounted']_vars

\* C4 witness: a request has ended with the fallback payload stored.
C4_Witness ==
    /\ apiKey # ""
    /\ aiAnalysis = FallbackAnalysis
    /\ ~isGenerating
    /\ requests = <<>>
    /\ ViewCurrent

\* C5: with the credential absent a click on Generate AI notifies the user
\* and changes nothing else: no request becomes pending.
C5_MissingKeyAborts ==
    [][(apiKey = "" /\ GenerateAIInsights)
          => /\ alerted'
             /\ requests' = <<>>
             /\ isGenerating' = FALSE
             /\ UNCHANGED <<portfolioData, aiAnalysis, isGenerating,
                            selectedSegment, selectedRegion, chartType,
                            isRefreshing, apiKey, rng, timers, requests,
                            rendered, mounted>>]_vars

\* C5 witness: the credential is absent and the alert has been shown.
C5_Witness == apiKey = "" /\ alerted /\ requests = <<>> /\ ~isGenerating

\* C6 as stated: once a request has completed and the page shows its result
\* the user may issue a new request (the Generate AI button is there).
C6_MayReissueAfterCompletion ==
    (ViewCurrent /\ apiKey # "" /\ Truthy(aiAnalysis) /\ ~isGenerating
        /\ requests = <<>>)
        => GenerateButtonShown

\* C6 amended: a completing request clears the pending flag, and a request
\* is issued only from a state with aiAnalysis null and nothing pending: after
\* a completion stored an analysis, only once a refresh has reset it to null.
C6_CompletionClearsFlag ==
    [][/\ RequestCompleted => ~isGenerating'
       /\ RequestIssued => (~Truthy(aiAnalysis) /\ ~isGenerating /\ requests = <<>>)
      ]_vars

\* C6 witness: a request has completed, the page shows its analysis and no
\* Generate AI button.
C6_Witness ==
    /\ ViewCurrent
    /\ apiKey # ""
    /\ Truthy(aiAnalysis)
    /\ ~isGenerating
    /\ requests = <<>>
    /\ ~GenerateButtonShown

\* C7: over an empty filtered set the metrics are defined numbers in every
\* field, mean risk score and default rate included, never NaN.
C7_EmptyMetricsDefined ==
    CurrentFiltered = <<>> =>
        /\ CurrentMetrics.avgRisk.kind = "number"
        /\ CurrentMetrics.defaultRate.kind = "number"

\* C8: the dashboard renders without error in every reachable combination of
\* collection, filter selection and analysis state.
C8_DashboardRenders ==
    ~RenderThrows(portfolioData, selectedSegment, selectedRegion, aiAnalysis,
                  isGenerating)

\* Indices of the records of the collection that the selection keeps.
KeptIndices ==
    {k \in 1..Len(portfolioData) :
        /\ selectedSegment = "all" \/ portfolioData[k].segment = selectedSegment
        /\ selectedRegion = "all" \/ portfolioData[k].region = selectedRegion}

\* The j-th smallest kept index.
KeptIndex(j) ==
    CHOOSE k \in KeptIndices : Cardinality({m \in KeptIndices : m <= k}) = j

\* C9: the filtered set is exactly the kept records, in collection order.
C9_FilterExact ==
    /\ Len(CurrentFiltered) = Cardinality(KeptIndices)
    /\ \A j \in 1..Len(CurrentFiltered) :
          CurrentFiltered[j] = portfolioData[KeptIndex(j)]

\* C9 witness: both filters are set and keep some records but not all.
C9_Witness ==
    /\ selectedSegment # "all"
    /\ selectedRegion # "all"
    /\ Len(CurrentFiltered) >= 1
    /\ Len(CurrentFiltered) < Len(portfolioData)

\* C10: filtering the filtered set with the same selection returns it.
C10_FilterIdempotent ==
    filteredData(CurrentFiltered, selectedSegment, selectedRegion) = CurrentFiltered

\* C10 witness: a selection that keeps at least two records and drops one.
C10_Witness ==
    /\ Len(CurrentFiltered) >= 2
    /\ Len(CurrentFiltered) < Len(portfolioData)

\* The summaries of the current state.
CurrentSegments == segmentData(CurrentFiltered)
CurrentRegions == regionData(CurrentFiltered)

\* Sum of accountBalance, and of annualRevenue, over the filtered records that
\* satisfy Keep, counted record by record.
RECURSIVE BalanceOver(_, _)
BalanceOver(Keep(_), k) ==
    IF k = 0
    THEN 0
    ELSE BalanceOver(Keep, k - 1)
         + (IF Keep(CurrentFiltered[k]) THEN CurrentFiltered[k].accountBalance ELSE 0)

RECURSIVE RevenueOver(_, _)
RevenueOver(Keep(_), k) ==
    IF k = 0
    THEN 0
    ELSE RevenueOver(Keep, k - 1)
         + (IF Keep(CurrentFiltered[k]) THEN CurrentFiltered[k].annualRevenue ELSE 0)

\* C11: the balances of the segment summaries add up to the sum of
\* accountBalance over the filtered set and to metrics.totalBalance; every
\* filtered record is counted in exactly one summary (one summary per segment
\* present, holding that segment's records).
C11_SegmentBalancesPartition ==
    LET n == Len(CurrentSegments)
        EveryRecord(d) == TRUE
    IN  /\ ReduceSum(0, [k \in 1..n |-> CurrentSegments[k].balance])
               = BalanceOver(EveryRecord, Len(CurrentFiltered))
        /\ ReduceSum(0, [k \in 1..n |-> CurrentSegments[k].balance])
               = CurrentMetrics.totalBalance
        /\ ReduceSum(0, [k \in 1..n |-> CurrentSegments[k].count]) = Len(CurrentFiltered)
        /\ \A j, k \in 1..n : CurrentSegments[j].name = CurrentSegments[k].name => j = k
        /\ \A k \in 1..n :
              LET InSegment(d) == d.segment = CurrentSegments[k].name
              IN  CurrentSegments[k].balance = BalanceOver(InSegment, Len(CurrentFiltered))

\* C11 witness: a region filter is set, it leaves some record out and keeps
\* records of two segments.
C11_Witness ==
    /\ selectedRegion # "all"
    /\ Len(CurrentFiltered) < Len(portfolioData)
    /\ Len(CurrentSegments) >= 2

\* C12: the region summaries are in descending order of revenue, and the
\* first one has the largest revenue total of any region of the filtered set.
C12_RegionsDescending ==
    /\ \A k \in 1..(Len(CurrentRegions) - 1) :
          CurrentRegions[k].revenue >= CurrentRegions[k + 1].revenue
    /\ \A r \in RegionOptions \ {"all"} :
          LET InRegion(d) == d.region = r
          IN  (\E k \in 1..Len(CurrentFiltered) : InRegion(CurrentFiltered[k]))
                  => /\ CurrentRegions # <<>>
                     /\ CurrentRegions[1].revenue
                            >= RevenueOver(InRegion, Len(CurrentFiltered))
                     /\ \E k \in 1..Len(CurrentRegions) :
                           /\ CurrentRegions[k].name = r
                           /\ CurrentRegions[k].revenue
                                  = RevenueOver(InRegion, Len(CurrentFiltered))

\* C12 witness: a segment filter is set and the sort has moved a region: the
\* first region met in the filtered set is not the one of largest revenue.
C12_Witness ==
    /\ selectedSegment # "all"
    /\ Len(CurrentRegions) >= 2
    /\ CurrentRegions[1].name # CurrentFiltered[1].region
    /\ CurrentRegions[1].revenue > CurrentRegions[2].revenue

\* Counts a caller may pass to the generator.
CountArgs == 0..(RecordCount + 1)

\* C13 as stated: generate(0) returns an empty sequence and generate(n)
\* returns exactly n records.
C13_GenerateCount ==
    \A n \in CountArgs : Len(generate(n, rng).data) = n

\* C13 amended: the generator takes no count; every call returns the same
\* fixed number of records (200 in the source, RecordCount here), whatever
\* is passed to it, and the collection of the component always has that size.
C13_FixedSize ==
    /\ Len(portfolioData) = RecordCount
    /\ \A n \in CountArgs : Len(generate(n, rng).data) = RecordCount

\* C13 witness: a refresh has replaced the collection by a generated one and
\* a second refresh is under way.
C13_Witness ==
    /\ Len(portfolioData) = RecordCount
    /\ Len(requests) = 1
    /\ requests[1].superseded
    /\ timers = 1

\* C14: every generated record has riskScore in [0.01, 0.99], utilization in
\* [0, 1.2], non-negative accountBalance and annualRevenue, a segment and a
\* region of the enumerations and the creditLimit fixed for its segment.
C14_RecordInvariants ==
    \A k \in 1..Len(portfolioData) :
        LET d == portfolioData[k]
        IN  /\ d.riskScore >= 10 /\ d.riskScore <= 990
            /\ d.utilization >= 0 /\ d.utilization <= 120
            /\ d.accountBalance >= 0
            /\ d.annualRevenue >= 0
            /\ d.segment \in {"Mass Market", "Affluent", "High Net Worth"}
            /\ d.region \in {"North America", "EMEA", "APAC", "LatAm"}
            /\ d.segment = "Mass Market" => d.creditLimit = 15000
            /\ d.segment = "Affluent" => d.creditLimit = 40000
            /\ d.segment = "High Net Worth" => d.creditLimit = 100000

\* C14 witness: a record on which both clamps have acted.
C14_Witness ==
    \E k \in 1..Len(portfolioData) :
        /\ portfolioData[k].riskScore = 990
        /\ portfolioData[k].utilization = 120

\* C15: on the three-record scenario, with no filter the metrics are
\* totalBalance 125000, totalRevenue 6500, avgRisk 1/3 (0.3333) and
\* defaultRate 100/3 (33.33 %); with region EMEA the filtered set has 2
\* records and totalRevenue 5800.
C15_Scenario ==
    portfolioData = ScenarioRecords =>
        /\ (selectedSegment = "all" /\ selectedRegion = "all") =>
              /\ CurrentMetrics.totalBalance = 125000
              /\ CurrentMetrics.totalRevenue = 6500
              /\ CurrentMetrics.avgRisk = [kind |-> "number", num |-> 1000, den |-> 3]
              /\ MathRound(10 * CurrentMetrics.avgRisk.num,
                           CurrentMetrics.avgRisk.den) = 3333
              /\ CurrentMetrics.defaultRate = [kind |-> "number", num |-> 100, den |-> 3]
              /\ MathRound(100 * CurrentMetrics.defaultRate.num,
                           CurrentMetrics.defaultRate.den) = 3333
        /\ (selectedSegment = "all" /\ selectedRegion = "EMEA") =>
              /\ Len(CurrentFiltered) = 2
              /\ CurrentMetrics.totalRevenue = 5800

\* C15 witness: the scenario with the region filter set to EMEA.
C15_Witness ==
    /\ portfolioData = ScenarioRecords
    /\ selectedSegment = "all"
    /\ selectedRegion = "EMEA"
    /\ Len(CurrentFiltered) = 2

\* C16: the record collection changes only in the step of a refresh timer,
\* and that step installs a complete newly generated collection; every step
\* that does not consume a timer (filter change, chart-type change, request
\* start or completion, report export, render) leaves it as it was.
C16_SnapshotReplacedWholesale ==
    [][/\ portfolioData' # portfolioData =>
            /\ timers' = timers - 1
            /\ mounted
            /\ portfolioData' = generatePortfolioData(rng).data
            /\ Len(portfolioData') = RecordCount
       /\ timers' >= timers => portfolioData' = portfolioData]_vars

\* C16 witness: a refresh has replaced the collection while a request was
\* in flight, and a chart-type change has been made.
C16_Witness ==
    /\ Len(requests) = 1
    /\ requests[1].superseded
    /\ ~isRefreshing
    /\ timers = 0
    /\ chartType = "line"
    /\ Len(portfolioData) = RecordCount

\* The lifecycle of the summarization request, read off the state.
Idle == ~isGenerating /\ ~Truthy(aiAnalysis)
Pending == isGenerating
Succeeded == ~isGenerating /\ Truthy(aiAnalysis) /\ aiAnalysis # FallbackAnalysis
Failed == ~isGenerating /\ aiAnalysis = FallbackAnalysis

C19_RequestFinishes ==
    (requests # <<>> /\ isGenerating)
        ~> (/\ requests = <<>>
            /\ ~isGenerating
            /\ \/ aiAnalysis = FallbackAnalysis
               \/ \E text \in ContentTexts :
                      JSONParse(text).ok /\ aiAnalysis = JSONParse(text).value)

\* C19 witness: a request has finished with a parsed response of the asked
\* shape, and the page shows it.
C19_Witness ==
    /\ requests = <<>>
    /\ ~isGenerating
    /\ Succeeded
    /\ aiAnalysis.hasInsights
    /\ Len(aiAnalysis.insights) = 3
    /\ ViewCurrent

\* C20: at most one refresh timer is pending, and isRefreshing is true
\* exactly while one is pending (so no refresh starts while it is true, and
\* the timer of each refresh leaves it false).
C20_OneTimerWhileRefreshing ==
    /\ timers <= 1
    /\ isRefreshing <=> (timers = 1)

\* C21: the step in which a refresh completes (its timer fires) replaces the
\* records by a newly generated collection, sets aiAnalysis to null and
\* clears isRefreshing, and leaves the segment filter, the region filter, the
\* chart type and the pending flag as they were.
C21_RefreshCompletion ==
    [][timers' < timers =>
          /\ portfolioData' = generatePortfolioData(rng).data
          /\ aiAnalysis' = Null
          /\ ~isRefreshing'
          /\ selectedSegment' = selectedSegment
          /\ selectedRegion' = selectedRegion
          /\ chartType' = chartType
          /\ isGenerating' = isGenerating]_vars

\* A step that changes a selection: segment filter, region filter, chart type.
SelectionChanged ==
    \/ selectedSegment' # selectedSegment
    \/ selectedRegion' # selectedRegion
    \/ chartType' # chartType

\* C22: a step that changes the segment filter, the region filter or the
\* chart type changes that one selection only: the other two selections, the
\* record collection, aiAnalysis, the pending flag and isRefreshing stay as
\* they were; an analysis on display is still on display after the step, and
\* a stored analysis goes back to null only in the step of a refresh timer.
C22_SelectionFrame ==
    [][/\ SelectionChanged =>
            /\ selectedSegment' # selectedSegment =>
                  (selectedRegion' = selectedRegion /\ chartType' = chartType)
            /\ selectedRegion' # selectedRegion =>
                  (selectedSegment' = selectedSegment /\ chartType' = chartType)
            /\ portfolioData' = portfolioData
            /\ aiAnalysis' = aiAnalysis
            /\ isGenerating' = isGenerating
            /\ isRefreshing' = isRefreshing
            /\ (ViewCurrent /\ Truthy(aiAnalysis)) =>
                  (mounted' /\ rendered'.aiAnalysis = aiAnalysis)
       /\ (Truthy(aiAnalysis) /\ ~Truthy(aiAnalysis')) => timers' < timers]_vars

\* C22 witness: an analysis of the asked shape is on display with both
\* filters set, a filter selection that keeps no record, and the line chart.
C22_Witness ==
    /\ ViewCurrent
    /\ Succeeded
    /\ aiAnalysis.hasInsights
    /\ selectedSegment # "all"
    /\ selectedRegion # "all"
    /\ CurrentFiltered = <<>>
    /\ chartType = "line"

====
